---- MODULE Spec2Model ----
(***************************************************************************)
(* Account operations of POO_Banco (refactored layer):                     *)
(*   src/src/services/conta_service.py  realizar_deposito, realizar_saque, *)
(*       transferir, aplicar_taxas, aplicar_rendimento                     *)
(*   src/src/models/conta_corrente.py   ContaCorrente.sacar/aplicar_taxas  *)
(*   src/src/models/conta_poupanca.py   ContaPoupanca.sacar/get_rendimento *)
(*   src/src/models/transacao.py        Transacao validators               *)
(*                                                                         *)
(* Monetary amounts are Python floats in the source; the model uses exact  *)
(* integers (one unit = one real) and only takes an interest step when     *)
(* saldo * taxa / 100 is itself an integer, so every modelled value is the *)
(* value the float computation yields exactly.                             *)
(***************************************************************************)
EXTENDS Integers, Sequences, FiniteSets, TLC

(***************************************************************************)
(* Bounds and input sets                                                   *)
(***************************************************************************)
MaxTransacoes == 2          \* total number of records over all logs

Correntes == {"c1", "c2"}   \* ContaCorrente objects
Poupancas == {"p1"}         \* ContaPoupanca objects
Contas == Correntes \cup Poupancas

Valores == {-5, 0, 5, 10}   \* amounts passed to the operations
SaldosIniciais == {0, 10}   \* saldo at construction (validated >= 0)
Taxas == {50}               \* taxa_rendimento in percent (validated > 0)

\* Conta.numero of each account object
numero == [c \in Contas |->
             CASE c = "c1" -> "1001" [] c = "c2" -> "1002" [] OTHER -> "2001"]

VARIABLES
    saldo,            \* Conta.saldo of every account
    transacoes,       \* Conta.transacoes of every account (oldest first)
    limite,           \* ContaCorrente.limite
    taxa_rendimento,  \* ContaPoupanca.taxa_rendimento (percent)
    last,             \* the last service call: arguments, outcome, value
                      \* returned, state before
    depositos,        \* the current run of consecutive successful deposits
    pessoas,          \* the Cliente / Funcionario objects constructed so far
    objetos,          \* the account objects constructed so far, by identity
    cliente_contas,   \* Cliente.contas of the customer objects
    agencia_contas,   \* Agencia.contas of the branch
    ult,              \* the last constructor, branch or validator call
    agencias,         \* Agencia.contas of each branch in Banco.agencias
    usuarios,         \* AuthService._usuarios
    sessoes,          \* SessionManager._sessoes
    agora,            \* the reading of datetime.now()
    emitidos,         \* how many tokens secrets.token_urlsafe has produced
    emissoes,         \* history: what became of every token handed out
    datas,            \* Transacao.data of each record of each log
    legado            \* the banco2 accounts built with the same arguments

\* the state of the account operations
operacoes == <<saldo, transacoes, limite, taxa_rendimento, last, depositos>>

\* the state of the registry: entities, ownership, branch membership
cadastro == <<pessoas, objetos, cliente_contas, agencia_contas, ult>>

\* the state of the bank's branches, of the sessions and of the clock
servicos ==
    <<agencias, usuarios, sessoes, agora, emitidos, emissoes, datas, legado>>

vars == <<saldo, transacoes, limite, taxa_rendimento, last, depositos,
          pessoas, objetos, cliente_contas, agencia_contas, ult,
          agencias, usuarios, sessoes, agora, emitidos, emissoes, datas,
          legado>>

\* ContaCorrente.taxa_manutencao: field default, never overridden
taxa_manutencao == 10

(***************************************************************************)
(* Helpers                                                                 *)
(***************************************************************************)
RECURSIVE SomaValores(_)
SomaValores(s) == IF s = <<>> THEN 0 ELSE Head(s) + SomaValores(Tail(s))

RECURSIVE TotalRegistros(_, _)
TotalRegistros(t, S) ==
    IF S = {} THEN 0
    ELSE LET c == CHOOSE x \in S : TRUE
         IN Len(t[c]) + TotalRegistros(t, S \ {c})

NenhumDeposito == [conta |-> "-", saldo0 |-> 0, len0 |-> 0, valores |-> <<>>]

\* outcome of a call: the exception raised (or "ok") and the state it leaves
Resultado(erro, s, t) == [erro |-> erro, saldo |-> s, transacoes |-> t]

(***************************************************************************)
(* Models: Transacao                                                       *)
(***************************************************************************)
\* the validator written "if v < 0": a zero amount is accepted
validar_valor_positivo_fraco(v) == v >= 0

\* Transacao.validar_valor_positivo: the constructor fails for valor <= 0
validar_valor_positivo(v) == v > 0

\* Transacao.validar_tipo_nao_vazio: the constructor fails for a blank tipo
validar_tipo_nao_vazio(tipo) == tipo # ""

\* Transacao(tipo=..., valor=..., conta=...)
Transacao(tipo, v, c) == [tipo |-> tipo, valor |-> v, conta |-> c]

\* "conta.transacoes.insert(0, transacao)" in place of append
registrar_no_inicio(s, t, c, tipo, v) ==
    IF validar_valor_positivo(v) /\ validar_tipo_nao_vazio(tipo)
    THEN Resultado("ok", s, [t EXCEPT ![c] = <<Transacao(tipo, v, c)>> \o @])
    ELSE Resultado("ValidationError", s, t)

\* the append when the two checking accounts share one default list object
registrar_em_lista_compartilhada(s, t, c, tipo, v) ==
    IF validar_valor_positivo(v) /\ validar_tipo_nao_vazio(tipo)
    THEN Resultado("ok", s,
                   [d \in DOMAIN t |->
                       IF d = c \/ {c, d} = {"c1", "c2"}
                       THEN Append(t[d], Transacao(tipo, v, c)) ELSE t[d]])
    ELSE Resultado("ValidationError", s, t)

\* transacao = Transacao(...); conta.transacoes.append(transacao)
\* after the balance s was already written: a failing constructor raises
\* pydantic's ValidationError and leaves the log as it was
registrar(s, t, c, tipo, v) ==
    IF validar_valor_positivo(v) /\ validar_tipo_nao_vazio(tipo)
    THEN Resultado("ok", s, [t EXCEPT ![c] = Append(@, Transacao(tipo, v, c))])
    ELSE Resultado("ValidationError", s, t)

(***************************************************************************)
(* Models: ContaCorrente, ContaPoupanca                                    *)
(***************************************************************************)
\* ContaCorrente.sacar with the limit test written ">=": x = B + L is refused
ContaCorrente_sacar_estrito(s, l, v) ==
    IF v <= 0 THEN [erro |-> "ValorInvalidoError", saldo |-> s]
    ELSE IF v >= s + l THEN [erro |-> "LimiteExcedidoError", saldo |-> s]
    ELSE [erro |-> "ok", saldo |-> s - v]

\* ContaCorrente.sacar debiting before the limit test
ContaCorrente_sacar_debita_antes(s, l, v) ==
    IF v <= 0 THEN [erro |-> "ValorInvalidoError", saldo |-> s]
    ELSE IF v > s + l THEN [erro |-> "LimiteExcedidoError", saldo |-> s - v]
    ELSE [erro |-> "ok", saldo |-> s - v]

\* ContaCorrente.sacar: exception raised and resulting saldo
ContaCorrente_sacar(s, l, v) ==
    IF v <= 0 THEN [erro |-> "ValorInvalidoError", saldo |-> s]
    ELSE IF v > s + l THEN [erro |-> "LimiteExcedidoError", saldo |-> s]
    ELSE [erro |-> "ok", saldo |-> s - v]

\* ContaPoupanca.sacar with the balance test written ">=": x = B is refused
ContaPoupanca_sacar_estrito(s, v) ==
    IF v <= 0 THEN [erro |-> "ValorInvalidoError", saldo |-> s]
    ELSE IF v >= s THEN [erro |-> "SaldoInsuficienteError", saldo |-> s]
    ELSE [erro |-> "ok", saldo |-> s - v]

\* ContaPoupanca.sacar without the balance test
ContaPoupanca_sacar_sem_saldo(s, v) ==
    IF v <= 0 THEN [erro |-> "ValorInvalidoError", saldo |-> s]
    ELSE [erro |-> "ok", saldo |-> s - v]

\* ContaPoupanca.sacar debiting before the balance test
ContaPoupanca_sacar_debita_antes(s, v) ==
    IF v <= 0 THEN [erro |-> "ValorInvalidoError", saldo |-> s]
    ELSE IF v > s THEN [erro |-> "SaldoInsuficienteError", saldo |-> s - v]
    ELSE [erro |-> "ok", saldo |-> s - v]

\* ContaPoupanca.sacar: exception raised and resulting saldo
ContaPoupanca_sacar(s, v) ==
    IF v <= 0 THEN [erro |-> "ValorInvalidoError", saldo |-> s]
    ELSE IF v > s THEN [erro |-> "SaldoInsuficienteError", saldo |-> s]
    ELSE [erro |-> "ok", saldo |-> s - v]

\* conta.sacar(valor): dispatch on the account's class
sacar(c, v) ==
    IF c \in Correntes THEN ContaCorrente_sacar(saldo[c], limite[c], v)
    ELSE ContaPoupanca_sacar(saldo[c], v)

\* ContaCorrente.aplicar_taxas charging only a balance that covers the fee
ContaCorrente_aplicar_taxas_condicional(s) ==
    IF s >= taxa_manutencao THEN s - taxa_manutencao ELSE s

\* ContaCorrente.aplicar_taxas: resulting saldo
ContaCorrente_aplicar_taxas(s) == s - taxa_manutencao

\* ContaPoupanca.aplicar_taxas: resulting saldo (pass)
ContaPoupanca_aplicar_taxas(s) == s

\* ContaCorrente.get_valor_imposto: saldo * 0.07, in hundredths of a unit
get_valor_imposto(s) == s * 7

\* "saldo * taxa_rendimento" without the division by 100
get_rendimento_sem_percentual(s, taxa) == s * taxa

\* ContaPoupanca.get_rendimento: saldo * (taxa_rendimento / 100)
get_rendimento(s, taxa) == (s * taxa) \div 100

\* the product saldo * (taxa_rendimento / 100) is a whole number
RendimentoExato(s, taxa) == (s * taxa) % 100 = 0

(***************************************************************************)
(* Models: conta_service                                                   *)
(***************************************************************************)
\* the guard written "if valor < 0"
valor_invalido_estrito(v) == v < 0

\* realizar_deposito, the guard "if valor <= 0"
valor_invalido(v) == v <= 0

\* "conta.saldo = valor" in place of "+="
creditar_atribui(s, v) == v

\* realizar_deposito, "conta.saldo += valor"
creditar(s, v) == s + v

\* transferir, tipo of the record on the source account
tipo_saida(o, d) == "Transf. para " \o numero[d]

\* the incoming record labelled with the destination's own number
tipo_entrada_trocado(o, d) == "Transf. de " \o numero[d]

\* transferir, tipo of the record on the destination account
tipo_entrada(o, d) == "Transf. de " \o numero[o]

realizar_deposito(c, v) ==
    IF valor_invalido(v)
    THEN Resultado("ValorInvalidoError", saldo, transacoes)
    ELSE registrar([saldo EXCEPT ![c] = creditar(@, v)], transacoes,
                   c, "Deposito", v)

realizar_saque(c, v) ==
    LET r == sacar(c, v)
        s1 == [saldo EXCEPT ![c] = r.saldo]
    IN IF r.erro # "ok"
       THEN Resultado(r.erro, s1, transacoes)
       ELSE registrar(s1, transacoes, c, "Saque", v)

\* the two accounts may be the same object; the statements run in order
transferir(o, d, v) ==
    LET r  == sacar(o, v)
        s1 == [saldo EXCEPT ![o] = r.saldo]
    IN IF r.erro # "ok"
       THEN Resultado(r.erro, s1, transacoes)
       ELSE LET r1 == registrar(s1, transacoes, o, tipo_saida(o, d), v)
            IN IF r1.erro # "ok"
               THEN r1
               ELSE registrar([s1 EXCEPT ![d] = @ + v], r1.transacoes,
                              d, tipo_entrada(o, d), v)

\* aplicar_taxas that charges the fee and records nothing
aplicar_taxas_sem_registro(c) ==
    Resultado("ok",
              [saldo EXCEPT ![c] = IF c \in Correntes
                                   THEN ContaCorrente_aplicar_taxas(@)
                                   ELSE ContaPoupanca_aplicar_taxas(@)],
              transacoes)

aplicar_taxas(c) ==
    LET saldo_anterior == saldo[c]
        novo == IF c \in Correntes
                THEN ContaCorrente_aplicar_taxas(saldo[c])
                ELSE ContaPoupanca_aplicar_taxas(saldo[c])
        s1 == [saldo EXCEPT ![c] = novo]
    IN IF novo < saldo_anterior
       THEN registrar(s1, transacoes, c, "Taxa manutencao",
                      saldo_anterior - novo)
       ELSE Resultado("ok", s1, transacoes)

\* hasattr(conta, 'get_rendimento') holds exactly for a ContaPoupanca
aplicar_rendimento(c) ==
    IF c \in Poupancas
    THEN LET rendimento == get_rendimento(saldo[c], taxa_rendimento[c])
         IN registrar([saldo EXCEPT ![c] = @ + rendimento], transacoes,
                      c, "Rendimento", rendimento)
    ELSE Resultado("ok", saldo, transacoes)

\* outcome of a query: the value returned and the state it leaves
Consulta(valor, s, t) ==
    [erro |-> "ok", saldo |-> s, transacoes |-> t, retorno |-> valor]

\* calcular_imposto that also charges the account (calls conta.aplicar_taxas)
calcular_imposto_cobra(c) ==
    IF c \in Correntes
    THEN Consulta(get_valor_imposto(saldo[c]),
                  [saldo EXCEPT ![c] = ContaCorrente_aplicar_taxas(@)],
                  transacoes)
    ELSE Consulta(0, saldo, transacoes)

\* hasattr(conta, 'get_valor_imposto') holds exactly for a ContaCorrente;
\* the value returned is in hundredths of a unit
calcular_imposto(c) ==
    IF c \in Correntes
    THEN Consulta(get_valor_imposto(saldo[c]), saldo, transacoes)
    ELSE Consulta(0, saldo, transacoes)

\* hasattr(conta, 'get_rendimento') holds exactly for a ContaPoupanca
calcular_rendimento(c) ==
    IF c \in Poupancas
    THEN Consulta(get_rendimento(saldo[c], taxa_rendimento[c]),
                  saldo, transacoes)
    ELSE Consulta(0, saldo, transacoes)

\* the two customer objects: a src.models.cliente.Cliente and a banco2.Cliente
ClienteNovo == "cliente"
ClienteLegado == "cliente_legado"

\* no registry call has been made
NenhumaChamada == [op |-> "nenhuma"]

\* Banco.agencias of the one bank: two branches, by identity
banco_agencias == <<"a1", "a2">>

\* a dict with no key
dict_vazio == [k \in {} |-> 0]

\* no account attached to a branch of the bank, no user, no session, the
\* clock at the start, no record stamped, the banco2 accounts as constructed
ServicosParados ==
    /\ agencias = [a \in {"a1", "a2"} |-> <<>>]
    /\ usuarios = dict_vazio
    /\ sessoes = dict_vazio
    /\ agora = 0
    /\ emitidos = 0
    /\ emissoes = dict_vazio
    /\ datas = [c \in Contas |-> <<>>]
    /\ legado = [c \in Contas |-> [saldo |-> saldo[c], transacoes |-> <<>>]]

\* the registry before any constructor or branch call
CadastroVazio ==
    /\ ServicosParados
    /\ pessoas = <<>>
    /\ objetos = <<>>
    /\ cliente_contas = [c \in {ClienteNovo, ClienteLegado} |-> <<>>]
    /\ agencia_contas = <<>>
    /\ ult = NenhumaChamada

(***************************************************************************)
(* Initial state: three constructed accounts with empty logs               *)
(***************************************************************************)
Init ==
    /\ saldo \in [Contas -> SaldosIniciais]
    /\ limite = [c \in Correntes |-> IF c = "c1" THEN 5 ELSE 0]
    /\ taxa_rendimento \in [Poupancas -> Taxas]
    /\ transacoes = [c \in Contas |-> <<>>]
    /\ last = [op |-> "init", conta |-> "-", destino |-> "-", valor |-> 0,
               erro |-> "ok", retorno |-> 0, saldoAntes |-> saldo,
               transAntes |-> [c \in Contas |-> <<>>]]
    /\ depositos = NenhumDeposito
    /\ CadastroVazio

(***************************************************************************)
(* Actions: one service call each                                          *)
(***************************************************************************)
\* the call op(c, d, v) runs to completion with outcome r
Chamar(op, c, d, v, r) ==
    /\ TotalRegistros(r.transacoes, Contas) <= MaxTransacoes
    /\ saldo' = r.saldo
    /\ transacoes' = r.transacoes
    /\ last' = [op |-> op, conta |-> c, destino |-> d, valor |-> v,
                erro |-> r.erro,
                retorno |-> IF "retorno" \in DOMAIN r THEN r.retorno ELSE 0,
                saldoAntes |-> saldo, transAntes |-> transacoes]
    /\ UNCHANGED <<limite, taxa_rendimento>>
    /\ UNCHANGED cadastro
    /\ UNCHANGED servicos

\* amounts offered to realizar_deposito(c, .): Valores and, for a savings
\* account, the value calcular_rendimento returns for it
ValoresDeposito(c) ==
    Valores \cup
    (IF c \in Poupancas /\ RendimentoExato(saldo[c], taxa_rendimento[c])
     THEN {calcular_rendimento(c).retorno} ELSE {})

Deposito ==
    \E c \in Contas : \E v \in ValoresDeposito(c) :
        LET r == realizar_deposito(c, v)
        IN /\ Chamar("realizar_deposito", c, "-", v, r)
           /\ depositos' =
                IF r.erro # "ok" THEN NenhumDeposito
                ELSE IF depositos.conta = c
                THEN [depositos EXCEPT !.valores = Append(@, v)]
                ELSE [conta |-> c, saldo0 |-> saldo[c],
                      len0 |-> Len(transacoes[c]), valores |-> <<v>>]

Saque ==
    \E c \in Contas, v \in Valores :
        /\ Chamar("realizar_saque", c, "-", v, realizar_saque(c, v))
        /\ depositos' = NenhumDeposito

Transferir ==
    \E o \in Contas, d \in Contas, v \in Valores :
        /\ Chamar("transferir", o, d, v, transferir(o, d, v))
        /\ depositos' = NenhumDeposito

AplicarTaxas ==
    \E c \in Contas :
        /\ Chamar("aplicar_taxas", c, "-", 0, aplicar_taxas(c))
        /\ depositos' = NenhumDeposito

AplicarRendimento ==
    \E c \in Contas :
        /\ c \in Poupancas => RendimentoExato(saldo[c], taxa_rendimento[c])
        /\ Chamar("aplicar_rendimento", c, "-", 0, aplicar_rendimento(c))
        /\ depositos' = NenhumDeposito

CalcularImposto ==
    \E c \in Contas :
        /\ Chamar("calcular_imposto", c, "-", 0, calcular_imposto(c))
        /\ depositos' = NenhumDeposito

CalcularRendimento ==
    \E c \in Contas :
        /\ c \in Poupancas => RendimentoExato(saldo[c], taxa_rendimento[c])
        /\ Chamar("calcular_rendimento", c, "-", 0, calcular_rendimento(c))
        /\ depositos' = NenhumDeposito

Next ==
    \/ Deposito
    \/ Saque
    \/ Transferir
    \/ AplicarTaxas
    \/ AplicarRendimento
    \/ CalcularImposto
    \/ CalcularRendimento

Spec == Init /\ [][Next]_vars


(***************************************************************************)
(* Properties                                                              *)
(***************************************************************************)
\* the call recorded in last appended exactly the records rs to c's log
Anexou(c, rs) == transacoes[c] = last.transAntes[c] \o rs

\* the call recorded in last left every balance and every log as it was
NadaMudou == saldo = last.saldoAntes /\ transacoes = last.transAntes

\* C1: after N consecutive successful realizar_deposito calls on an account
\* (checking or savings) its balance is the balance before the first call
\* plus the sum of the amounts, and its log is exactly N records longer.
C1_DepositosSomam ==
    depositos.valores # <<>> =>
        /\ saldo[depositos.conta] =
              depositos.saldo0 + SomaValores(depositos.valores)
        /\ Len(transacoes[depositos.conta]) =
              depositos.len0 + Len(depositos.valores)

C1_Witness ==
    /\ Len(depositos.valores) >= 2
    /\ depositos.saldo0 > 0
    /\ last.op = "realizar_deposito" /\ last.erro = "ok"

\* C2: realizar_saque(x) on a checking account with balance B and limit L
\* succeeds iff 0 < x <= B + L; on success the balance is B - x and one
\* "Saque" record is appended; otherwise ValorInvalidoError is raised for
\* x <= 0 and LimiteExcedidoError for a positive x > B + L, and neither the
\* balance nor the log changes.
C2_SaqueCorrente ==
    (last.op = "realizar_saque" /\ last.conta \in Correntes) =>
        LET c == last.conta
            B == last.saldoAntes[c]
            L == limite[c]
            x == last.valor
        IN /\ (last.erro = "ok") <=> (0 < x /\ x <= B + L)
           /\ last.erro = "ok" =>
                 /\ saldo[c] = B - x
                 /\ Anexou(c, <<Transacao("Saque", x, c)>>)
           /\ last.erro # "ok" =>
                 /\ saldo[c] = B
                 /\ transacoes[c] = last.transAntes[c]
                 /\ x <= 0 => last.erro = "ValorInvalidoError"
                 /\ x > 0 => last.erro = "LimiteExcedidoError"

C2_Witness ==
    /\ last.op = "realizar_saque" /\ last.conta \in Correntes
    /\ last.erro = "ok"
    /\ last.valor = last.saldoAntes[last.conta] + limite[last.conta]
    /\ saldo[last.conta] < 0

\* C3: realizar_saque(x) on a savings account with balance B succeeds iff
\* 0 < x <= B; on success the balance is B - x and one record is appended;
\* otherwise ValorInvalidoError (x <= 0) or SaldoInsuficienteError (x > B)
\* is raised and neither the balance nor the log changes.
C3_SaquePoupanca ==
    (last.op = "realizar_saque" /\ last.conta \in Poupancas) =>
        LET c == last.conta
            B == last.saldoAntes[c]
            x == last.valor
        IN /\ (last.erro = "ok") <=> (0 < x /\ x <= B)
           /\ last.erro = "ok" =>
                 /\ saldo[c] = B - x
                 /\ Anexou(c, <<Transacao("Saque", x, c)>>)
           /\ last.erro # "ok" =>
                 /\ saldo[c] = B
                 /\ transacoes[c] = last.transAntes[c]
                 /\ x <= 0 => last.erro = "ValorInvalidoError"
                 /\ x > 0 => last.erro = "SaldoInsuficienteError"

C3_Witness ==
    /\ last.op = "realizar_saque" /\ last.conta \in Poupancas
    /\ last.erro = "ok"
    /\ last.valor = last.saldoAntes[last.conta]
    /\ saldo[last.conta] = 0

\* C4: a successful transferir(o, d, x) between two distinct accounts lowers
\* o's balance by x, raises d's balance by x (their sum is unchanged) and
\* appends exactly one record to each log, each labelled with the other
\* account's number.
C4_Transferencia ==
    (last.op = "transferir" /\ last.erro = "ok"
        /\ last.conta # last.destino) =>
        LET o == last.conta
            d == last.destino
            x == last.valor
        IN /\ saldo[o] = last.saldoAntes[o] - x
           /\ saldo[d] = last.saldoAntes[d] + x
           /\ saldo[o] + saldo[d] = last.saldoAntes[o] + last.saldoAntes[d]
           /\ Anexou(o, <<Transacao("Transf. para " \o numero[d], x, o)>>)
           /\ Anexou(d, <<Transacao("Transf. de " \o numero[o], x, d)>>)

C4_Witness ==
    /\ last.op = "transferir" /\ last.erro = "ok"
    /\ last.conta \in Correntes /\ last.destino \in Poupancas
    /\ saldo[last.conta] < 0

\* the withdraw step of transferir(o, d, x) fails under o's rules
FalhaSaque(o, B, x) ==
    \/ x <= 0
    \/ o \in Correntes /\ x > B + limite[o]
    \/ o \in Poupancas /\ x > B

\* C5: when the withdraw step of transferir fails under the source account's
\* rules an error is raised, the destination is not credited, no record is
\* created, and every balance and every log is as before the call.
C5_TransferenciaFalha ==
    (last.op = "transferir"
        /\ FalhaSaque(last.conta, last.saldoAntes[last.conta], last.valor)) =>
        /\ last.erro \in {"ValorInvalidoError", "LimiteExcedidoError",
                          "SaldoInsuficienteError"}
        /\ NadaMudou

C5_Witness ==
    /\ last.op = "transferir" /\ last.erro = "LimiteExcedidoError"
    /\ last.conta # last.destino
    /\ last.valor > 0

\* C6: realizar_deposito with an amount <= 0 raises ValorInvalidoError and
\* leaves the account's balance and log unchanged.
C6_DepositoInvalido ==
    (last.op = "realizar_deposito" /\ last.valor <= 0) =>
        /\ last.erro = "ValorInvalidoError"
        /\ NadaMudou

C6_Witness ==
    /\ last.op = "realizar_deposito" /\ last.valor = 0
    /\ last.erro = "ValorInvalidoError"
    /\ transacoes[last.conta] # <<>>

\* C7: in every reachable state the balance of every checking account is at
\* least minus its overdraft limit.
C7_SaldoRespeitaLimite ==
    \A c \in Correntes : saldo[c] >= -limite[c]

\* C8: in every reachable state the balance of every savings account is
\* non-negative.
C8_PoupancaNaoNegativa ==
    \A c \in Poupancas : saldo[c] >= 0

C8_Witness ==
    /\ last.op = "transferir" /\ last.erro = "ok"
    /\ last.conta \in Poupancas
    /\ last.saldoAntes[last.conta] > 0
    /\ saldo[last.conta] = 0

\* C9: aplicar_taxas on a checking account, whatever its balance, lowers the
\* balance by exactly the maintenance fee and appends exactly one fee record
\* whose amount is that fee; on a savings account it changes neither the
\* balance nor the log.
C9_Taxas ==
    last.op = "aplicar_taxas" =>
        LET c == last.conta
        IN IF c \in Correntes
           THEN /\ last.erro = "ok"
                /\ saldo[c] = last.saldoAntes[c] - taxa_manutencao
                /\ Anexou(c, <<Transacao("Taxa manutencao",
                                         taxa_manutencao, c)>>)
           ELSE /\ saldo[c] = last.saldoAntes[c]
                /\ transacoes[c] = last.transAntes[c]

C9_Witness ==
    /\ last.op = "aplicar_taxas" /\ last.conta \in Correntes
    /\ last.saldoAntes[last.conta] < taxa_manutencao
    /\ saldo[last.conta] < 0

\* tipo labels of the records that credit an account
TiposCredito ==
    {"Deposito", "Rendimento"} \cup {"Transf. de " \o numero[c] : c \in Contas}

\* signed sum of the amounts of a sequence of records
RECURSIVE SomaRegistros(_)
SomaRegistros(rs) ==
    IF rs = <<>> THEN 0
    ELSE (IF Head(rs).tipo \in TiposCredito
          THEN Head(rs).valor ELSE -Head(rs).valor) + SomaRegistros(Tail(rs))

\* the records the call recorded in last added to c's log
Novos(c) ==
    SubSeq(transacoes[c], Len(last.transAntes[c]) + 1, Len(transacoes[c]))

\* C10: no operation leaves a partial effect: a call that raises leaves every
\* balance and every log as before the call, and after a call that succeeds
\* every account's old log is kept, and its balance has changed by exactly
\* the amounts of the records the call added to its log.
C10_SemEfeitoParcial ==
    /\ last.erro # "ok" => NadaMudou
    /\ last.erro = "ok" =>
          \A c \in Contas :
             /\ Len(transacoes[c]) >= Len(last.transAntes[c])
             /\ SubSeq(transacoes[c], 1, Len(last.transAntes[c]))
                   = last.transAntes[c]
             /\ saldo[c] - last.saldoAntes[c] = SomaRegistros(Novos(c))

C10_Witness ==
    /\ last.op = "aplicar_rendimento" /\ last.conta \in Poupancas
    /\ last.erro = "ValidationError"
    /\ transacoes[last.conta] # <<>>

\* p is a prefix of q
Prefixo(p, q) == Len(p) <= Len(q) /\ SubSeq(q, 1, Len(p)) = p

\* C11: the log of every account is append-only: in every step the log
\* before the step is a prefix of the log after it, so no record is removed,
\* reordered or replaced and the records stay in the order of the operations.
C11_LogSoCresce ==
    [][\A c \in Contas : Prefixo(transacoes[c], transacoes'[c])]_vars

C11_Witness ==
    \E c \in Contas :
        /\ Len(transacoes[c]) = 2
        /\ transacoes[c][1].tipo = "Deposito"
        /\ transacoes[c][2].tipo = "Saque"
        /\ last.op = "realizar_saque" /\ last.conta = c /\ last.erro = "ok"
        /\ last.transAntes[c] = <<transacoes[c][1]>>

\* C12: every record of every log has an amount > 0, and the length of an
\* account's log differs from its length before the last call only when that
\* call was an operation on that account that completed successfully.
C12_RegistrosPositivos ==
    /\ \A c \in Contas : \A i \in 1..Len(transacoes[c]) :
          transacoes[c][i].valor > 0
    /\ \A c \in Contas :
          Len(transacoes[c]) # Len(last.transAntes[c]) =>
             /\ last.erro = "ok"
             /\ c \in {last.conta, last.destino}

C12_Witness ==
    /\ last.op = "aplicar_rendimento" /\ last.conta \in Poupancas
    /\ last.saldoAntes[last.conta] = 0
    /\ last.erro # "ok"
    /\ Len(transacoes[last.conta]) = Len(last.transAntes[last.conta])

\* C13: calcular_imposto on a checking account returns 7% of the current
\* balance and changes neither a balance nor a log, and two consecutive calls
\* on the same account return the same value.
C13_ImpostoPuro ==
    /\ [](last.op = "calcular_imposto" /\ last.conta \in Correntes =>
             /\ last.retorno = 7 * saldo[last.conta]
             /\ NadaMudou)
    /\ [][(/\ last.op = "calcular_imposto"
           /\ last'.op = "calcular_imposto"
           /\ last'.conta = last.conta
           /\ last.conta \in Correntes) => last'.retorno = last.retorno]_vars

C13_Witness ==
    /\ last.op = "calcular_imposto" /\ last.conta \in Correntes
    /\ saldo[last.conta] < 0
    /\ last.retorno < 0
    /\ transacoes[last.conta] # <<>>

\* C14 as stated: calcular_rendimento on a savings account with balance B and
\* rate r returns B*(r/100) without changing balance or log, and depositing
\* the returned value through realizar_deposito succeeds and raises the
\* balance by exactly that value, for every reachable savings account.
C14_RendimentoDepositavel ==
    /\ (last.op = "calcular_rendimento" /\ last.conta \in Poupancas) =>
          /\ 100 * last.retorno
                = saldo[last.conta] * taxa_rendimento[last.conta]
          /\ NadaMudou
    /\ (/\ last.op = "realizar_deposito" /\ last.conta \in Poupancas
        /\ 100 * last.valor
              = last.saldoAntes[last.conta] * taxa_rendimento[last.conta]) =>
          /\ last.erro = "ok"
          /\ saldo[last.conta] = last.saldoAntes[last.conta] + last.valor

\* C14 amended: calcular_rendimento returns B*(r/100) without changing
\* balance or log; for a savings account with B > 0 depositing the returned
\* value succeeds and raises the balance by exactly that value; with B = 0
\* the returned value is 0 and realizar_deposito raises ValorInvalidoError,
\* leaving balance and log unchanged.
C14_RendimentoDepositavelSaldoPositivo ==
    /\ (last.op = "calcular_rendimento" /\ last.conta \in Poupancas) =>
          /\ 100 * last.retorno
                = saldo[last.conta] * taxa_rendimento[last.conta]
          /\ NadaMudou
    /\ (/\ last.op = "realizar_deposito" /\ last.conta \in Poupancas
        /\ 100 * last.valor
              = last.saldoAntes[last.conta] * taxa_rendimento[last.conta]) =>
          IF last.saldoAntes[last.conta] > 0
          THEN /\ last.erro = "ok"
               /\ saldo[last.conta] = last.saldoAntes[last.conta] + last.valor
               /\ Anexou(last.conta,
                         <<Transacao("Deposito", last.valor, last.conta)>>)
          ELSE /\ last.valor = 0
               /\ last.erro = "ValorInvalidoError"
               /\ NadaMudou

C14_Witness ==
    /\ last.op = "realizar_deposito" /\ last.conta \in Poupancas
    /\ last.saldoAntes[last.conta] > 0
    /\ 100 * last.valor
          = last.saldoAntes[last.conta] * taxa_rendimento[last.conta]
    /\ last.erro = "ok"


(***************************************************************************)
(* Document validators (utils/validators.py).  A string is a sequence of   *)
(* one-character strings.                                                  *)
(***************************************************************************)
Digitos == <<"0", "1", "2", "3", "4", "5", "6", "7", "8", "9">>

\* str.isdigit() of one character
isdigit(ch) == \E i \in 1..10 : Digitos[i] = ch

\* int() of one digit character
int(ch) == (CHOOSE i \in 1..10 : Digitos[i] = ch) - 1

\* re.sub(r'\D', '', s)
apenas_digitos(s) == SelectSeq(s, isdigit)

\* sum(int(d[i]) * (peso - i) for i in range(n)), d indexed from 1 here
RECURSIVE soma_ponderada(_, _, _)
soma_ponderada(d, n, peso) ==
    IF n = 0 THEN 0
    ELSE soma_ponderada(d, n - 1, peso) + int(d[n]) * (peso - (n - 1))

digito_verificador_resto_um(soma) ==
    LET resto == soma % 11
    IN  IF resto < 1 THEN 0 ELSE 11 - resto

\* resto = soma % 11; digito = 0 if resto < 2 else 11 - resto
digito_verificador(soma) ==
    LET resto == soma % 11
    IN  IF resto < 2 THEN 0 ELSE 11 - resto

validar_cpf(cpf) ==
    LET cpf_limpo == apenas_digitos(cpf)
    IN  IF Len(cpf_limpo) # 11 THEN FALSE
        ELSE IF \A i \in 1..11 : cpf_limpo[i] = cpf_limpo[1] THEN FALSE
        ELSE IF int(cpf_limpo[10])
                  # digito_verificador(soma_ponderada(cpf_limpo, 9, 10))
             THEN FALSE
        ELSE int(cpf_limpo[11])
                = digito_verificador(soma_ponderada(cpf_limpo, 10, 11))

\* the account state while only the registry or the validators are exercised
OperacoesParadas ==
    /\ saldo = [c \in Contas |-> 0]
    /\ limite = [c \in Correntes |-> 0]
    /\ taxa_rendimento = [c \in Poupancas |-> 50]
    /\ transacoes = [c \in Contas |-> <<>>]
    /\ last = [conta |-> "-", erro |-> "ok", valor |-> 0, retorno |-> 0,
               op |-> "init", destino |-> "-", saldoAntes |-> saldo,
               transAntes |-> [c \in Contas |-> <<>>]]
    /\ depositos = NenhumDeposito

\* "123.456.789-09" from "12345678909"
pontuar(c) ==
    SubSeq(c, 1, 3) \o <<".">> \o SubSeq(c, 4, 6) \o <<".">>
        \o SubSeq(c, 7, 9) \o <<"-">> \o SubSeq(c, 10, 11)

\* the first nine digits of the CPFs given to validar_cpf
BasesCPF ==
    { <<"1", "2", "3", "4", "5", "6", "7", "8", "9">>,
      <<"9", "8", "7", "6", "5", "4", "3", "2", "1">>,
      <<"1", "1", "1", "1", "1", "1", "1", "1", "1">>,
      <<"5", "2", "9", "9", "8", "2", "2", "4", "7">> }

\* eleven digits: every base with every pair of check digits
OnzeDigitos ==
    { b \o <<Digitos[x], Digitos[y]>> :
          b \in BasesCPF, x \in 1..10, y \in 1..10 }

\* the strings given to validar_cpf: plain, punctuated, too short, too
\* long, empty, without any digit
EntradasCPF ==
    OnzeDigitos
        \cup { pontuar(c) : c \in OnzeDigitos }
        \cup { SubSeq(c, 1, 10) : c \in OnzeDigitos }
        \cup { c \o <<"0">> : c \in OnzeDigitos }
        \cup { <<>>, <<"a", "b", "c">> }

InitValidadores ==
    /\ OperacoesParadas
    /\ CadastroVazio

\* one call validar_cpf(cpf)
ValidarCPF ==
    \E cpf \in EntradasCPF :
        /\ ult' = [retorno |-> validar_cpf(cpf), op |-> "validar_cpf",
                   entrada |-> cpf]
        /\ UNCHANGED <<pessoas, objetos, cliente_contas, agencia_contas>>
        /\ UNCHANGED operacoes
        /\ UNCHANGED servicos

NextValidadores ==
    ValidarCPF

SpecValidadores == InitValidadores /\ [][NextValidadores]_vars

\* weights of the two check digits, first digit first
PesosCPF1 == <<10, 9, 8, 7, 6, 5, 4, 3, 2>>
PesosCPF2 == <<11, 10, 9, 8, 7, 6, 5, 4, 3, 2>>

RECURSIVE ProdutoPesos(_, _, _)
ProdutoPesos(d, pesos, n) ==
    IF n = 0 THEN 0
    ELSE ProdutoPesos(d, pesos, n - 1) + int(d[n]) * pesos[n]

DigitoEsperado(d, pesos) ==
    LET r == ProdutoPesos(d, pesos, Len(pesos)) % 11
    IN  IF r < 2 THEN 0 ELSE 11 - r

CPFEsperado(s) ==
    LET d == SelectSeq(s, isdigit)
    IN  /\ Len(d) = 11
        /\ \E i \in 1..11 : d[i] # d[1]
        /\ int(d[10]) = DigitoEsperado(d, PesosCPF1)
        /\ int(d[11]) = DigitoEsperado(d, PesosCPF2)

CPF_123_456_789_09 ==
    pontuar(<<"1", "2", "3", "4", "5", "6", "7", "8", "9", "0", "9">>)
CPF_12345678909 == <<"1", "2", "3", "4", "5", "6", "7", "8", "9", "0", "9">>
CPF_123_456_789_00 ==
    pontuar(<<"1", "2", "3", "4", "5", "6", "7", "8", "9", "0", "0">>)
CPF_111_111_111_11 ==
    pontuar(<<"1", "1", "1", "1", "1", "1", "1", "1", "1", "1", "1">>)

\* C20: validar_cpf(s) is True exactly when the digits of s are 11, not all
\* identical, and the 10th and 11th equal the check digits of the weighted
\* sums (weights 10..2 and 11..2, remainder mod 11 below 2 gives 0, else 11
\* minus the remainder); punctuation does not change the result;
\* "123.456.789-09" and "12345678909" are valid, "123.456.789-00" and
\* "111.111.111-11" are not.
C20_ValidarCPF ==
    ult.op = "validar_cpf" =>
        /\ ult.retorno = CPFEsperado(ult.entrada)
        /\ ult.retorno = validar_cpf(SelectSeq(ult.entrada, isdigit))
        /\ ult.entrada \in {CPF_123_456_789_09, CPF_12345678909}
              => ult.retorno = TRUE
        /\ ult.entrada \in {CPF_123_456_789_00, CPF_111_111_111_11}
              => ult.retorno = FALSE

C20_Witness ==
    /\ ult.op = "validar_cpf"
    /\ ult.entrada = CPF_123_456_789_09
    /\ ult.retorno = TRUE


(***************************************************************************)
(* Construction of persons (models/pessoa.py, cliente.py, funcionario.py). *)
(* A date is <<year, month, day>>.  Pydantic runs the field validators in  *)
(* the order of the fields, the inherited ones first; it collects the      *)
(* ValueErrors and raises one ValidationError at the end, while any other  *)
(* exception leaves the constructor at once.                               *)
(***************************************************************************)
MaxPessoas == 2

RECURSIVE lstrip(_)
lstrip(s) ==
    IF s # <<>> /\ Head(s) = " " THEN lstrip(Tail(s)) ELSE s

RECURSIVE rstrip(_)
rstrip(s) ==
    IF s # <<>> /\ s[Len(s)] = " " THEN rstrip(SubSeq(s, 1, Len(s) - 1))
    ELSE s

\* str.strip()
strip(s) == rstrip(lstrip(s))

\* (hoje.month, hoje.day) < (v.month, v.day)
antes_do_aniversario(hoje, v) ==
    \/ hoje[2] < v[2]
    \/ hoje[2] = v[2] /\ hoje[3] < v[3]

\* idade = hoje.year - v.year - ((hoje.month, hoje.day) < (v.month, v.day))
idade(hoje, v) ==
    hoje[1] - v[1] - (IF antes_do_aniversario(hoje, v) THEN 1 ELSE 0)

Pessoa_validar_cpf_format(v) ==
    IF ~validar_cpf(v) THEN "CPFInvalidoError" ELSE "ok"

Pessoa_validar_idade_minima(hoje, v) ==
    IF idade(hoje, v) < 18 THEN "IdadeInvalidaError" ELSE "ok"

Pessoa_validar_nome_nao_vazio(v) ==
    IF strip(v) = <<>> THEN "ValueError" ELSE "ok"

\* cnh_limpo = v.replace(' ', '').replace('-', '')
Cliente_validar_cnh_formato(v) ==
    LET cnh_limpo == SelectSeq(v, LAMBDA ch : ch \notin {" ", "-"})
    IN  IF \/ ~(cnh_limpo # <<>>
                  /\ \A i \in 1..Len(cnh_limpo) : isdigit(cnh_limpo[i]))
           \/ Len(cnh_limpo) < 9
        THEN "ValueError" ELSE "ok"

Funcionario_validar_salario_positivo(v) ==
    IF v <= 0 THEN "ValueError" ELSE "ok"

Funcionario_validar_campo_nao_vazio(v) ==
    IF strip(v) = <<>> THEN "ValueError" ELSE "ok"

Conta_validar_saldo_nao_negativo(v) ==
    IF v < 0 THEN "ValueError" ELSE "ok"

Conta_validar_numero_nao_vazio(v) ==
    IF strip(v) = <<>> THEN "ValueError" ELSE "ok"

ContaCorrente_validar_limite_nao_negativo(v) ==
    IF v < 0 THEN "ValueError" ELSE "ok"

ContaPoupanca_validar_taxa_positiva_aceita_zero(v) ==
    IF v < 0 THEN "ValueError" ELSE "ok"

ContaPoupanca_validar_taxa_positiva(v) ==
    IF v <= 0 THEN "ValueError" ELSE "ok"

\* if not 1 <= v <= 31
ContaPoupanca_validar_dia_mes(v) ==
    IF ~(1 <= v /\ v <= 31) THEN "ValueError" ELSE "ok"

Pessoa_campos_idade_primeiro == <<"nome", "data_nascimento", "cpf">>

\* the fields of Pessoa in the order of their definition
Pessoa_campos == <<"nome", "cpf", "data_nascimento">>

Cliente_campos == Pessoa_campos \o <<"cnh">>

\* the fields of Conta and of its two subclasses in the order of definition
Conta_campos == <<"numero", "cliente", "saldo", "senha_hash">>

ContaCorrente_campos == Conta_campos \o <<"limite">>

ContaPoupanca_campos == Conta_campos \o <<"taxa_rendimento", "data_aniversario">>

Funcionario_campos == Pessoa_campos \o <<"cargo", "matricula", "salario">>

\* the validator of one field applied to the argument given for it
validar_campo(campo, args, hoje) ==
    CASE campo = "nome" -> Pessoa_validar_nome_nao_vazio(args.nome)
      [] campo = "cpf" -> Pessoa_validar_cpf_format(args.cpf)
      [] campo = "data_nascimento" ->
            Pessoa_validar_idade_minima(hoje, args.data_nascimento)
      [] campo = "cnh" -> Cliente_validar_cnh_formato(args.cnh)
      [] campo = "cargo" -> Funcionario_validar_campo_nao_vazio(args.cargo)
      [] campo = "matricula" ->
            Funcionario_validar_campo_nao_vazio(args.matricula)
      [] campo = "salario" -> Funcionario_validar_salario_positivo(args.salario)
      [] campo = "numero" -> Conta_validar_numero_nao_vazio(args.numero)
      [] campo = "saldo" -> Conta_validar_saldo_nao_negativo(args.saldo)
      [] campo = "limite" ->
            ContaCorrente_validar_limite_nao_negativo(args.limite)
      [] campo = "taxa_rendimento" ->
            ContaPoupanca_validar_taxa_positiva(args.taxa_rendimento)
      [] campo = "data_aniversario" ->
            ContaPoupanca_validar_dia_mes(args.data_aniversario)
      [] OTHER -> "ok"

\* BaseModel.__init__: the outcome of validating the fields in order, with
\* erros the number of ValueErrors collected so far
RECURSIVE validar_campos(_, _, _, _)
validar_campos(campos, args, hoje, erros) ==
    IF campos = <<>>
    THEN IF erros = 0 THEN "ok" ELSE "ValidationError"
    ELSE LET e == validar_campo(Head(campos), args, hoje)
         IN  IF e \notin {"ok", "ValueError"} THEN e
             ELSE validar_campos(Tail(campos), args, hoje,
                                 erros + (IF e = "ValueError" THEN 1 ELSE 0))

\* the object a successful constructor returns: nome is stored stripped
Cliente_objeto(args) ==
    [cpf |-> args.cpf, nome |-> strip(args.nome),
     data_nascimento |-> args.data_nascimento, cnh |-> args.cnh,
     classe |-> "Cliente"]

Funcionario_objeto(args) ==
    [cpf |-> args.cpf, nome |-> strip(args.nome),
     data_nascimento |-> args.data_nascimento,
     cargo |-> strip(args.cargo), matricula |-> strip(args.matricula),
     salario |-> args.salario, classe |-> "Funcionario"]

\* constructor arguments
Nomes == { <<"J">>, <<" ">> }

CPFsValidos ==
    { pontuar(<<"1", "2", "3", "4", "5", "6", "7", "8", "9", "0", "9">>) }

CPFsInvalidos ==
    { pontuar(<<"1", "1", "1", "1", "1", "1", "1", "1", "1", "1", "1">>),
      <<"1", "2", "3", "4", "5", "6", "7", "8", "9", "0", "0">> }

Hojes == { <<2026, 11, 2>> }

Nascimentos ==
    { <<1990, 1, 1>>, <<2008, 11, 2>>, <<2008, 11, 3>>, <<2008, 12, 1>> }

CNHs == { <<"1", "2", "3", "4", "5", "6", "7", "8", "9">>, <<"1", "2", "-", "3">> }

Salarios == { 0, 1000 }

InitPessoa ==
    /\ OperacoesParadas
    /\ CadastroVazio

\* the constructor call classe(**args) at date hoje with outcome erro
Construir(classe, args, hoje, erro, objeto) ==
    /\ IF erro = "ok"
       THEN /\ Len(pessoas) < MaxPessoas
            /\ pessoas' = Append(pessoas, objeto)
       ELSE pessoas' = pessoas
    /\ ult' = [erro |-> erro, op |-> classe, cpf |-> args.cpf,
               hoje |-> hoje, data_nascimento |-> args.data_nascimento,
               pessoasAntes |-> pessoas]
    /\ UNCHANGED <<objetos, cliente_contas, agencia_contas>>
    /\ UNCHANGED operacoes
    /\ UNCHANGED servicos

CriarCliente ==
    \E nome \in Nomes, cpf \in CPFsValidos \cup CPFsInvalidos,
       nasc \in Nascimentos, cnh \in CNHs, hoje \in Hojes :
        LET args == [cpf |-> cpf, nome |-> nome, data_nascimento |-> nasc,
                     cnh |-> cnh]
        IN  Construir("Cliente", args, hoje,
                      validar_campos(Cliente_campos, args, hoje, 0),
                      Cliente_objeto(args))

CriarFuncionario ==
    \E nome \in Nomes, cpf \in CPFsValidos \cup CPFsInvalidos,
       nasc \in Nascimentos, salario \in Salarios, hoje \in Hojes :
        LET args == [cpf |-> cpf, nome |-> nome, data_nascimento |-> nasc,
                     cargo |-> <<"G">>, matricula |-> <<"7">>,
                     salario |-> salario]
        IN  Construir("Funcionario", args, hoje,
                      validar_campos(Funcionario_campos, args, hoje, 0),
                      Funcionario_objeto(args))

NextPessoa ==
    \/ CriarCliente
    \/ CriarFuncionario

SpecPessoa == InitPessoa /\ [][NextPessoa]_vars

\* C18: constructing a Cliente or a Funcionario checks the CPF before the
\* age: an invalid CPF raises CPFInvalidoError whatever the birth date, a
\* valid CPF with an age below 18 raises IdadeInvalidaError, and a failed
\* construction creates no entity.
C18_CPFAntesDaIdade ==
    ult.op \in {"Cliente", "Funcionario"} =>
        /\ ult.cpf \in CPFsInvalidos => ult.erro = "CPFInvalidoError"
        /\ (/\ ult.cpf \in CPFsValidos
            /\ idade(ult.hoje, ult.data_nascimento) < 18)
              => ult.erro = "IdadeInvalidaError"
        /\ ult.erro # "ok" => pessoas = ult.pessoasAntes

C18_Witness ==
    /\ ult.op = "Cliente"
    /\ ult.cpf \in CPFsInvalidos
    /\ idade(ult.hoje, ult.data_nascimento) < 18
    /\ ult.erro = "CPFInvalidoError"
    /\ pessoas = ult.pessoasAntes


(***************************************************************************)
(* Construction of accounts and ownership (models/conta*.py, cliente.py,   *)
(* banco2.py).  An account object is identified by its position in         *)
(* objetos; the collections hold positions.  Two pydantic models are ==    *)
(* when they are of the same class with equal field values; the classes of *)
(* banco2.py define no __eq__ and are == only to themselves.               *)
(***************************************************************************)
MaxObjetos == 2

Refatoradas == {"ContaCorrente", "ContaPoupanca"}

\* a == b for the account objects at positions i and j
igual(i, j) ==
    \/ i = j
    \/ /\ objetos[i].classe \in Refatoradas
       /\ objetos[i] = objetos[j]

\* conta in contas
pertence(i, contas) == \E k \in 1..Len(contas) : igual(contas[k], i)

ContaCorrente_objeto(args) ==
    [numero |-> strip(args.numero), saldo |-> args.saldo,
     transacoes |-> <<>>, limite |-> args.limite,
     taxa_manutencao |-> taxa_manutencao, classe |-> "ContaCorrente",
     cliente |-> args.cliente, senha_hash |-> args.senha_hash]

ContaPoupanca_objeto(args) ==
    [numero |-> strip(args.numero), saldo |-> args.saldo,
     transacoes |-> <<>>, taxa_rendimento |-> args.taxa_rendimento,
     data_aniversario |-> args.data_aniversario, classe |-> "ContaPoupanca",
     cliente |-> args.cliente, senha_hash |-> args.senha_hash]

\* banco2.Conta_Corrente / banco2.Conta_Poupanca: the arguments are stored
\* as given
Conta_legada_objeto(classe, args) ==
    [numero |-> args.numero, saldo |-> args.saldo, transacoes |-> <<>>,
     classe |-> classe, cliente |-> args.cliente, senha |-> args.senha]

\* Cliente.adicionar_conta of models/cliente.py
Cliente_adicionar_conta(contas, i) ==
    IF ~pertence(i, contas) THEN Append(contas, i) ELSE contas

\* Cliente.adicionar_conta of banco2.py
Cliente_legado_adicionar_conta(contas, i) == Append(contas, i)

\* constructor arguments
NumerosConta == { <<>>, <<" ">>, <<"1">>, <<" ", "1">> }

SaldosConta == { -1, 0 }

Limites == { -1, 0 }

TaxasConta == { 0, 50 }

Dias == { 0, 1, 31, 32 }

InitContas ==
    /\ OperacoesParadas
    /\ CadastroVazio

\* the validated arguments of a constructor call, as the call is remembered
validados(classe, args) ==
    IF classe = "ContaCorrente"
    THEN [numero |-> args.numero, saldo |-> args.saldo,
          limite |-> args.limite]
    ELSE [numero |-> args.numero, saldo |-> args.saldo,
          taxa_rendimento |-> args.taxa_rendimento,
          data_aniversario |-> args.data_aniversario]

\* ContaCorrente(...) / ContaPoupanca(...): validation, then the object;
\* the owner's collection is not touched
ConstruirConta(classe, args, erro, objeto) ==
    /\ IF erro = "ok"
       THEN /\ Len(objetos) < MaxObjetos
            /\ objetos' = Append(objetos, objeto)
       ELSE objetos' = objetos
    /\ ult' = [erro |-> erro, op |-> classe,
               args |-> validados(classe, args), objetosAntes |-> objetos]
    /\ UNCHANGED <<pessoas, cliente_contas, agencia_contas>>
    /\ UNCHANGED operacoes
    /\ UNCHANGED servicos

CriarContaCorrente ==
    \E n \in NumerosConta, s \in SaldosConta, l \in Limites :
        LET args == [numero |-> n, saldo |-> s, limite |-> l,
                     cliente |-> ClienteNovo, senha_hash |-> "h"]
        IN  ConstruirConta("ContaCorrente", args,
                           validar_campos(ContaCorrente_campos, args,
                                          <<0, 0, 0>>, 0),
                           ContaCorrente_objeto(args))

CriarContaPoupanca ==
    \E n \in NumerosConta, s \in SaldosConta, t \in TaxasConta, d \in Dias :
        LET args == [numero |-> n, saldo |-> s, taxa_rendimento |-> t,
                     data_aniversario |-> d, cliente |-> ClienteNovo,
                     senha_hash |-> "h"]
        IN  ConstruirConta("ContaPoupanca", args,
                           validar_campos(ContaPoupanca_campos, args,
                                          <<0, 0, 0>>, 0),
                           ContaPoupanca_objeto(args))

\* banco2.Conta.__init__: no validation; the last statement registers the
\* account with its owner
CriarContaLegada ==
    \E classe \in {"Conta_Corrente", "Conta_Poupanca"}, n \in {<<>>, <<"1">>} :
        LET args == [numero |-> n, saldo |-> -1, cliente |-> ClienteLegado,
                     senha |-> "s"]
        IN  /\ Len(objetos) < MaxObjetos
            /\ objetos' = Append(objetos, Conta_legada_objeto(classe, args))
            /\ cliente_contas' =
                  [cliente_contas EXCEPT ![ClienteLegado] =
                      Cliente_legado_adicionar_conta(@, Len(objetos) + 1)]
            /\ ult' = [erro |-> "ok", op |-> classe,
                       objetosAntes |-> objetos]
            /\ UNCHANGED <<pessoas, agencia_contas>>
            /\ UNCHANGED operacoes
            /\ UNCHANGED servicos

\* cliente.adicionar_conta(conta) called on the owner of a refactored account
AdicionarContaAoCliente ==
    \E i \in 1..Len(objetos) :
        /\ objetos[i].classe \in Refatoradas
        /\ cliente_contas' =
              [cliente_contas EXCEPT ![objetos[i].cliente] =
                  Cliente_adicionar_conta(@, i)]
        /\ ult' = [conta |-> i, erro |-> "ok",
                   op |-> "Cliente.adicionar_conta",
                   objetosAntes |-> objetos]
        /\ UNCHANGED <<pessoas, objetos, agencia_contas>>
        /\ UNCHANGED operacoes
        /\ UNCHANGED servicos

NextContas ==
    \/ CriarContaCorrente
    \/ CriarContaPoupanca
    \/ CriarContaLegada
    \/ AdicionarContaAoCliente

SpecContas == InitContas /\ [][NextContas]_vars

\* the number of positions of contas that hold the object i itself
Ocorrencias(contas, i) ==
    Cardinality({k \in 1..Len(contas) : contas[k] = i})

\* C15: every constructed account, refactored or legacy, is in the account
\* collection of its owner exactly once.
C15_PosseBidirecional ==
    \A i \in 1..Len(objetos) :
        Ocorrencias(cliente_contas[objetos[i].cliente], i) = 1

\* the claim's preconditions on the constructor arguments
PrecondicoesConta(classe, args) ==
    /\ args.saldo >= 0
    /\ args.numero # <<>>
    /\ classe = "ContaCorrente" => args.limite >= 0
    /\ classe = "ContaPoupanca" =>
          /\ args.taxa_rendimento > 0
          /\ args.data_aniversario \in 1..31

\* C19: ContaCorrente(...) / ContaPoupanca(...) succeeds only when saldo >= 0,
\* numero is not empty, limite >= 0 (checking), taxa_rendimento > 0 and
\* data_aniversario in 1..31 (savings); otherwise it raises a validation
\* error and no account object is added.
C19_ContaValidada ==
    ult.op \in Refatoradas =>
        /\ ult.erro = "ok" =>
              /\ PrecondicoesConta(ult.op, ult.args)
              /\ Len(objetos) = Len(ult.objetosAntes) + 1
              /\ objetos[Len(objetos)].saldo = ult.args.saldo
        /\ ~PrecondicoesConta(ult.op, ult.args) =>
              ult.erro = "ValidationError"
        /\ ult.erro # "ok" => objetos = ult.objetosAntes

C19_Witness ==
    /\ ult.op = "ContaPoupanca"
    /\ ult.erro = "ok"
    /\ ult.args.data_aniversario = 31
    /\ Len(objetos) = Len(ult.objetosAntes) + 1


(***************************************************************************)
(* Branch membership (services/agencia_service.py, models/agencia.py).     *)
(* The branch is offered four constructed accounts: a checking account     *)
(* numbered "1", a second checking account built from the same arguments,  *)
(* a savings account with the same number, a checking account numbered     *)
(* "2".  Membership tests and list.remove compare with ==.                 *)
(***************************************************************************)
ContasDaAgencia ==
    << ContaCorrente_objeto([numero |-> <<"1">>, saldo |-> 0, limite |-> 0,
                             cliente |-> ClienteNovo, senha_hash |-> "h"]),
       ContaCorrente_objeto([numero |-> <<"1">>, saldo |-> 0, limite |-> 0,
                             cliente |-> ClienteNovo, senha_hash |-> "h"]),
       ContaPoupanca_objeto([numero |-> <<"1">>, saldo |-> 0,
                             taxa_rendimento |-> 50, data_aniversario |-> 1,
                             cliente |-> ClienteNovo, senha_hash |-> "h"]),
       ContaCorrente_objeto([numero |-> <<"2">>, saldo |-> 0, limite |-> 0,
                             cliente |-> ClienteNovo, senha_hash |-> "h"]) >>

\* numbers asked of buscar_conta_na_agencia
NumerosBuscados == { <<"1">>, <<"2">>, <<"3">> }

\* list.remove(conta): the list without its first element == conta
RECURSIVE remove(_, _)
remove(contas, i) ==
    IF contas = <<>> THEN <<>>
    ELSE IF igual(Head(contas), i) THEN Tail(contas)
    ELSE <<Head(contas)>> \o remove(Tail(contas), i)

adicionar_conta_na_agencia(contas, i) ==
    IF pertence(i, contas)
    THEN [erro |-> "ContaDuplicadaError", contas |-> contas]
    ELSE [erro |-> "ok", contas |-> Append(contas, i)]

remover_conta_da_agencia(contas, i) ==
    IF ~pertence(i, contas)
    THEN [erro |-> "ContaNaoEncontradaError", contas |-> contas]
    ELSE [erro |-> "ok", contas |-> remove(contas, i)]

Agencia_adicionar_conta(contas, i) ==
    IF ~pertence(i, contas)
    THEN [erro |-> "ok", contas |-> Append(contas, i)]
    ELSE [erro |-> "ok", contas |-> contas]

Agencia_remover_conta(contas, i) ==
    IF pertence(i, contas)
    THEN [erro |-> "ok", contas |-> remove(contas, i)]
    ELSE [erro |-> "ok", contas |-> contas]

\* the position in contas of the first account numbered n, 0 when the loop
\* ends without one
RECURSIVE primeira_com_numero(_, _, _)
primeira_com_numero(contas, n, k) ==
    IF k > Len(contas) THEN 0
    ELSE IF objetos[contas[k]].numero = n THEN k
    ELSE primeira_com_numero(contas, n, k + 1)

\* returns the account found, or raises
buscar_conta_na_agencia(contas, n) ==
    LET k == primeira_com_numero(contas, n, 1)
    IN  IF k # 0
        THEN [erro |-> "ok", retorno |-> contas[k]]
        ELSE [erro |-> "ContaNaoEncontradaError", retorno |-> 0]

InitAgencia ==
    /\ OperacoesParadas
    /\ ServicosParados
    /\ pessoas = <<>>
    /\ objetos = ContasDaAgencia
    /\ cliente_contas = [c \in {ClienteNovo, ClienteLegado} |-> <<>>]
    /\ agencia_contas = <<>>
    /\ ult = NenhumaChamada

\* the call op(conta, agencia) with outcome r
ChamarAgencia(op, i, r) ==
    /\ agencia_contas' = r.contas
    /\ ult' = [conta |-> i, erro |-> r.erro, op |-> op,
               agenciaAntes |-> agencia_contas]
    /\ UNCHANGED <<pessoas, objetos, cliente_contas>>
    /\ UNCHANGED operacoes
    /\ UNCHANGED servicos

AdicionarContaNaAgencia ==
    \E i \in 1..Len(objetos) :
        ChamarAgencia("adicionar_conta_na_agencia", i,
                      adicionar_conta_na_agencia(agencia_contas, i))

RemoverContaDaAgencia ==
    \E i \in 1..Len(objetos) :
        ChamarAgencia("remover_conta_da_agencia", i,
                      remover_conta_da_agencia(agencia_contas, i))

AgenciaAdicionarConta ==
    \E i \in 1..Len(objetos) :
        ChamarAgencia("Agencia.adicionar_conta", i,
                      Agencia_adicionar_conta(agencia_contas, i))

AgenciaRemoverConta ==
    \E i \in 1..Len(objetos) :
        ChamarAgencia("Agencia.remover_conta", i,
                      Agencia_remover_conta(agencia_contas, i))

BuscarContaNaAgencia ==
    \E n \in NumerosBuscados :
        LET r == buscar_conta_na_agencia(agencia_contas, n)
        IN  /\ ult' = [numero |-> n, erro |-> r.erro, retorno |-> r.retorno,
                       op |-> "buscar_conta_na_agencia",
                       agenciaAntes |-> agencia_contas]
            /\ UNCHANGED <<pessoas, objetos, cliente_contas, agencia_contas>>
            /\ UNCHANGED operacoes
            /\ UNCHANGED servicos

NextAgencia ==
    \/ AdicionarContaNaAgencia
    \/ RemoverContaDaAgencia
    \/ AgenciaAdicionarConta
    \/ AgenciaRemoverConta
    \/ BuscarContaNaAgencia

SpecAgencia == InitAgencia /\ [][NextAgencia]_vars

\* the object i itself is an element of contas
Contem(contas, i) == \E k \in 1..Len(contas) : contas[k] = i

\* C16: adicionar_conta_na_agencia raises ContaDuplicadaError when the
\* account is already in the branch, remover_conta_da_agencia raises
\* ContaNaoEncontradaError when it is not, both leave the collection
\* unchanged, and the collection never holds an account twice.
C16_AgenciaSemDuplicatas ==
    /\ (/\ ult.op = "adicionar_conta_na_agencia"
        /\ Contem(ult.agenciaAntes, ult.conta)) =>
          /\ ult.erro = "ContaDuplicadaError"
          /\ agencia_contas = ult.agenciaAntes
    /\ (/\ ult.op = "remover_conta_da_agencia"
        /\ ~Contem(ult.agenciaAntes, ult.conta)) =>
          /\ ult.erro = "ContaNaoEncontradaError"
          /\ agencia_contas = ult.agenciaAntes
    /\ \A j, k \in 1..Len(agencia_contas) :
          j # k => agencia_contas[j] # agencia_contas[k]

\* C17: no two different accounts of the branch have the same number, so a
\* number identifies at most one account of the branch.
C17_NumeroUnicoNaAgencia ==
    \A j, k \in 1..Len(agencia_contas) :
        j # k => objetos[agencia_contas[j]].numero
                    # objetos[agencia_contas[k]].numero


(***************************************************************************)
(* validar_cnpj (utils/validators.py)                                      *)
(***************************************************************************)
pesos1_trocado == <<5, 4, 3, 2, 9, 8, 7, 6, 5, 4, 2, 3>>

pesos1 == <<5, 4, 3, 2, 9, 8, 7, 6, 5, 4, 3, 2>>

pesos2 == <<6, 5, 4, 3, 2, 9, 8, 7, 6, 5, 4, 3, 2>>

\* sum(int(d[i]) * pesos[i] for i in range(n)), both indexed from 1 here
RECURSIVE soma_pesos(_, _, _)
soma_pesos(d, pesos, n) ==
    IF n = 0 THEN 0
    ELSE soma_pesos(d, pesos, n - 1) + int(d[n]) * pesos[n]

validar_cnpj(cnpj) ==
    LET cnpj_limpo == apenas_digitos(cnpj)
    IN  IF Len(cnpj_limpo) # 14 THEN FALSE
        ELSE IF \A i \in 1..14 : cnpj_limpo[i] = cnpj_limpo[1] THEN FALSE
        ELSE IF int(cnpj_limpo[13])
                  # digito_verificador(soma_pesos(cnpj_limpo, pesos1, 12))
             THEN FALSE
        ELSE int(cnpj_limpo[14])
                = digito_verificador(soma_pesos(cnpj_limpo, pesos2, 13))

\* "11.222.333/0001-81" from "11222333000181"
pontuar_cnpj(c) ==
    SubSeq(c, 1, 2) \o <<".">> \o SubSeq(c, 3, 5) \o <<".">>
        \o SubSeq(c, 6, 8) \o <<"/">> \o SubSeq(c, 9, 12) \o <<"-">>
        \o SubSeq(c, 13, 14)

\* the first twelve digits of the CNPJs given to validar_cnpj
BasesCNPJ ==
    { <<"1", "1", "2", "2", "2", "3", "3", "3", "0", "0", "0", "1">>,
      <<"0", "0", "0", "0", "0", "0", "5", "5", "0", "0", "0", "1">>,
      <<"0", "0", "0", "0", "0", "0", "0", "0", "0", "0", "0", "0">>,
      <<"1", "1", "1", "1", "1", "1", "1", "1", "1", "1", "1", "1">> }

\* fourteen digits: every base with every pair of check digits
QuatorzeDigitos ==
    { b \o <<Digitos[x], Digitos[y]>> :
          b \in BasesCNPJ, x \in 1..10, y \in 1..10 }

\* the strings given to validar_cnpj: plain, punctuated, too short, too
\* long, empty
EntradasCNPJ ==
    QuatorzeDigitos
        \cup { pontuar_cnpj(c) : c \in QuatorzeDigitos }
        \cup { SubSeq(c, 1, 13) : c \in QuatorzeDigitos }
        \cup { SubSeq(pontuar_cnpj(c), 1, 15) : c \in QuatorzeDigitos }
        \cup { <<>>, <<"1", "1", "2", "2", "2", "3", "3", "3", "0", "0",
                       "0", "1", "8", "1">> \o <<"0">> }

\* one call validar_cnpj(cnpj)
ValidarCNPJ ==
    \E cnpj \in EntradasCNPJ :
        /\ ult' = [retorno |-> validar_cnpj(cnpj), op |-> "validar_cnpj",
                   entrada |-> cnpj]
        /\ UNCHANGED <<pessoas, objetos, cliente_contas, agencia_contas>>
        /\ UNCHANGED operacoes
        /\ UNCHANGED servicos

NextCNPJ ==
    ValidarCNPJ

SpecCNPJ == InitValidadores /\ [][NextCNPJ]_vars

\* weight vectors of the two check digits, as the claim gives them
PesosCNPJ1 == <<5, 4, 3, 2, 9, 8, 7, 6, 5, 4, 3, 2>>
PesosCNPJ2 == <<6, 5, 4, 3, 2, 9, 8, 7, 6, 5, 4, 3, 2>>

CNPJEsperado(s) ==
    LET d == SelectSeq(s, isdigit)
    IN  /\ Len(d) = 14
        /\ \E i \in 1..14 : d[i] # d[1]
        /\ int(d[13]) = DigitoEsperado(d, PesosCNPJ1)
        /\ int(d[14]) = DigitoEsperado(d, PesosCNPJ2)

CNPJ_11_222_333_0001_81 ==
    pontuar_cnpj(<<"1", "1", "2", "2", "2", "3", "3", "3", "0", "0", "0",
                   "1", "8", "1">>)
CNPJ_11_222_333_0001_00 ==
    pontuar_cnpj(<<"1", "1", "2", "2", "2", "3", "3", "3", "0", "0", "0",
                   "1", "0", "0">>)

\* C21: validar_cnpj(s) is True exactly when the digits of s are 14, not all
\* identical, and the 13th and 14th equal the check digits of the weighted
\* sums with weights 5,4,3,2,9,8,7,6,5,4,3,2 and 6,5,4,3,2,9,8,7,6,5,4,3,2
\* (remainder mod 11 below 2 gives 0, else 11 minus the remainder);
\* "11.222.333/0001-81" is valid and "11.222.333/0001-00" is not.
C21_ValidarCNPJ ==
    ult.op = "validar_cnpj" =>
        /\ ult.retorno = CNPJEsperado(ult.entrada)
        /\ ult.entrada = CNPJ_11_222_333_0001_81 => ult.retorno = TRUE
        /\ ult.entrada = CNPJ_11_222_333_0001_00 => ult.retorno = FALSE

C21_Witness ==
    /\ ult.op = "validar_cnpj"
    /\ ult.entrada = CNPJ_11_222_333_0001_81
    /\ ult.retorno = TRUE

(***************************************************************************)
(* The bank: banco_service.calcular_saldo_total_banco over the branches    *)
(* of one Banco, agencia_service.adicionar_conta_na_agencia for each of    *)
(* them.  The accounts are those of the account operations, so membership  *)
(* by == is membership by identity: their numero differ.                   *)
(***************************************************************************)
\* the accounts and amounts offered to the bank's calls
ContasDoBanco == {"c1", "p1"}
ValoresDoBanco == {0, 5}

\* for conta in agencia.contas: saldo_total += conta.saldo
RECURSIVE soma_saldos_agencia(_, _)
soma_saldos_agencia(contas, k) ==
    IF k > Len(contas) THEN 0
    ELSE saldo[contas[k]] + soma_saldos_agencia(contas, k + 1)

\* for agencia in banco.agencias: ...
RECURSIVE soma_saldos_banco(_)
soma_saldos_banco(k) ==
    IF k > Len(banco_agencias) THEN 0
    ELSE soma_saldos_agencia(agencias[banco_agencias[k]], 1)
         + soma_saldos_banco(k + 1)

calcular_saldo_total_banco == soma_saldos_banco(1)

\* agencia_service.adicionar_conta_na_agencia(conta, agencia) on a branch of
\* the bank
adicionar_conta_na_agencia_do_banco(c, a) ==
    IF \E k \in 1..Len(agencias[a]) : agencias[a][k] = c
    THEN [erro |-> "ContaDuplicadaError", contas |-> agencias[a]]
    ELSE [erro |-> "ok", contas |-> Append(agencias[a], c)]

InitBanco ==
    /\ Init
    /\ saldo["c2"] = 0

AdicionarContaNaAgenciaDoBanco ==
    \E c \in ContasDoBanco, a \in DOMAIN agencias :
        LET r == adicionar_conta_na_agencia_do_banco(c, a)
        IN  /\ agencias' = [agencias EXCEPT ![a] = r.contas]
            /\ ult' = [conta |-> c, erro |-> r.erro,
                       op |-> "adicionar_conta_na_agencia"]
            /\ UNCHANGED <<pessoas, objetos, cliente_contas, agencia_contas>>
            /\ UNCHANGED <<usuarios, sessoes, agora, emitidos, emissoes>>
            /\ UNCHANGED <<datas, legado>>
            /\ UNCHANGED operacoes

DepositoNoBanco ==
    \E c \in ContasDoBanco, v \in ValoresDoBanco :
        /\ Chamar("realizar_deposito", c, "-", v, realizar_deposito(c, v))
        /\ depositos' = NenhumDeposito

SaqueNoBanco ==
    \E c \in ContasDoBanco, v \in ValoresDoBanco :
        /\ Chamar("realizar_saque", c, "-", v, realizar_saque(c, v))
        /\ depositos' = NenhumDeposito

TransferirNoBanco ==
    \E o \in ContasDoBanco, d \in ContasDoBanco, v \in ValoresDoBanco :
        /\ Chamar("transferir", o, d, v, transferir(o, d, v))
        /\ depositos' = NenhumDeposito

CalcularSaldoTotalBanco ==
    /\ ult' = [retorno |-> calcular_saldo_total_banco,
               op |-> "calcular_saldo_total_banco",
               saldoAntes |-> saldo, agenciasAntes |-> agencias]
    /\ UNCHANGED <<pessoas, objetos, cliente_contas, agencia_contas>>
    /\ UNCHANGED servicos
    /\ UNCHANGED operacoes

NextBanco ==
    \/ AdicionarContaNaAgenciaDoBanco
    \/ DepositoNoBanco
    \/ SaqueNoBanco
    \/ TransferirNoBanco
    \/ CalcularSaldoTotalBanco

SpecBanco == InitBanco /\ [][NextBanco]_vars

\* the accounts attached to some branch, as a set
ContasNoBanco(ags) ==
    {c \in Contas : \E a \in DOMAIN ags : \E k \in 1..Len(ags[a]) :
                        ags[a][k] = c}

RECURSIVE SomaSaldos(_, _)
SomaSaldos(S, sal) ==
    IF S = {} THEN 0
    ELSE LET c == CHOOSE x \in S : TRUE
         IN  sal[c] + SomaSaldos(S \ {c}, sal)

\* C22: the total calcular_saldo_total_banco returns is the sum of the
\* balances of the accounts attached to the bank's branches, each account
\* counted once.  Violated: an account attached to two branches of the bank
\* is added once per branch.
C22_SaldoTotalContaCadaContaUmaVez ==
    ult.op = "calcular_saldo_total_banco" =>
        ult.retorno =
            SomaSaldos(ContasNoBanco(ult.agenciasAntes), ult.saldoAntes)

(***************************************************************************)
(* Authentication: AuthService over SessionManager.  A dict is a function  *)
(* on the set of its keys.  The clock counts quarter hours and only moves  *)
(* forward; secrets.token_urlsafe(32) is taken to return a value it has    *)
(* never returned before, numbered in the order of issue; bcrypt is taken  *)
(* to be injective on a password and a salt.                               *)
(***************************************************************************)
MaxAgora == 3
MaxTokens == 2

\* SessionManager(tempo_expiracao_minutos=30), in quarter hours
tempo_expiracao == 2

\* d[k] = v
atribuir(d, k, v) == [x \in DOMAIN d \cup {k} |-> IF x = k THEN v ELSE d[x]]

\* del d[k]
apagar(d, k) == [x \in DOMAIN d \ {k} |-> d[x]]

\* bcrypt.hashpw(senha, sal): the salt is readable in the hash
hashpw(senha, sal) == <<sal, senha>>

\* security.hash_senha with the salt bcrypt.gensalt() drew
hash_senha(senha, sal) == hashpw(senha, sal)

\* security.verificar_senha: bcrypt.checkpw hashes senha with the salt of
\* the stored hash and compares
verificar_senha(senha, hash_armazenado) ==
    hashpw(senha, hash_armazenado[1]) = hash_armazenado

\* str.isalnum on the characters the usernames are written with
isalnum(s) ==
    /\ Len(s) > 0
    /\ \A k \in 1..Len(s) : s[k] \in {"a", "b", "n", "o"} \/ isdigit(s[k])

\* v.replace('_', '')
sem_underscore(s) == SelectSeq(s, LAMBDA ch : ch # "_")

\* Usuario.validar_username
Usuario_validar_username(v) ==
    LET u == strip(v)
    IN  IF Len(u) < 3 THEN [erro |-> "ValueError", valor |-> v]
        ELSE IF ~isalnum(sem_underscore(u))
        THEN [erro |-> "ValueError", valor |-> v]
        ELSE [erro |-> "ok", valor |-> u]

\* AuthService.registrar_usuario
registrar_usuario(username, senha, role, ativo, sal) ==
    IF username \in DOMAIN usuarios
    THEN [usuarios |-> usuarios,
          erro |-> "AutenticacaoError"]
    ELSE LET v == Usuario_validar_username(username)
         IN  IF v.erro # "ok"
             THEN [usuarios |-> usuarios,
                   erro |-> "ValidationError"]
             ELSE [usuarios |->
                       atribuir(usuarios, username,
                                [senha_hash |-> hash_senha(senha, sal),
                                 username |-> v.valor, role |-> role,
                                 ativo |-> ativo]),
                   erro |-> "ok"]

\* SessionManager.criar_sessao that keeps the session the user already has
criar_sessao_sem_substituir(username) ==
    LET token == emitidos + 1
    IN  [sessoes |-> IF username \in DOMAIN sessoes THEN sessoes
                     ELSE atribuir(sessoes, username,
                                   <<token, agora + tempo_expiracao>>),
         retorno |-> token]

\* SessionManager.criar_sessao
criar_sessao(username) ==
    LET token == emitidos + 1
        expira_em == agora + tempo_expiracao
    IN  [sessoes |-> atribuir(sessoes, username, <<token, expira_em>>),
         retorno |-> token]

\* AuthService.fazer_login that opens the session before it checks the
\* password
fazer_login_sessao_antes_da_senha(username, senha) ==
    IF username \notin DOMAIN usuarios
    THEN [sessoes |-> sessoes,
          erro |-> "AutenticacaoError", retorno |-> 0]
    ELSE IF ~usuarios[username].ativo
    THEN [sessoes |-> sessoes,
          erro |-> "AutenticacaoError", retorno |-> 0]
    ELSE LET r == criar_sessao(username)
         IN  IF ~verificar_senha(senha, usuarios[username].senha_hash)
             THEN [sessoes |-> r.sessoes,
                   erro |-> "AutenticacaoError", retorno |-> 0]
             ELSE [sessoes |-> r.sessoes,
                   erro |-> "ok", retorno |-> r.retorno]

\* AuthService.fazer_login
fazer_login(username, senha) ==
    IF username \notin DOMAIN usuarios
    THEN [sessoes |-> sessoes,
          erro |-> "AutenticacaoError", retorno |-> 0]
    ELSE IF ~usuarios[username].ativo
    THEN [sessoes |-> sessoes,
          erro |-> "AutenticacaoError", retorno |-> 0]
    ELSE IF ~verificar_senha(senha, usuarios[username].senha_hash)
    THEN [sessoes |-> sessoes,
          erro |-> "AutenticacaoError", retorno |-> 0]
    ELSE LET r == criar_sessao(username)
         IN  [sessoes |-> r.sessoes,
              erro |-> "ok", retorno |-> r.retorno]

\* SessionManager.validar_sessao
validar_sessao(username, token) ==
    IF username \notin DOMAIN sessoes
    THEN [sessoes |-> sessoes,
          erro |-> "ok", retorno |-> FALSE]
    ELSE LET token_armazenado == sessoes[username][1]
             expira_em == sessoes[username][2]
         IN  IF token # token_armazenado
             THEN [sessoes |-> sessoes,
                   erro |-> "ok", retorno |-> FALSE]
             ELSE IF agora > expira_em
             THEN [sessoes |-> apagar(sessoes, username),
                   erro |-> "ok", retorno |-> FALSE]
             ELSE [sessoes |-> sessoes,
                   erro |-> "ok", retorno |-> TRUE]

\* AuthService.verificar_sessao
verificar_sessao(username, token) == validar_sessao(username, token)

\* SessionManager.renovar_sessao
renovar_sessao(username) ==
    IF username \in DOMAIN sessoes
    THEN LET token == sessoes[username][1]
             nova_expiracao == agora + tempo_expiracao
         IN  [sessoes |-> atribuir(sessoes, username,
                                   <<token, nova_expiracao>>),
              erro |-> "ok", retorno |-> 0]
    ELSE [sessoes |-> sessoes,
          erro |-> "ok", retorno |-> 0]

\* SessionManager.encerrar_sessao that forgets to delete
encerrar_sessao_sem_apagar(username) ==
    [sessoes |-> sessoes, erro |-> "ok", retorno |-> 0]

\* SessionManager.encerrar_sessao
encerrar_sessao(username) ==
    IF username \in DOMAIN sessoes
    THEN [sessoes |-> apagar(sessoes, username),
          erro |-> "ok", retorno |-> 0]
    ELSE [sessoes |-> sessoes,
          erro |-> "ok", retorno |-> 0]

\* AuthService.logout
logout(username) == encerrar_sessao(username)

\* SessionManager.limpar_sessoes_expiradas
limpar_sessoes_expiradas ==
    LET expiradas == {u \in DOMAIN sessoes : agora > sessoes[u][2]}
    IN  [sessoes |-> [u \in DOMAIN sessoes \ expiradas |-> sessoes[u]],
         erro |-> "ok", retorno |-> Cardinality(expiradas)]

\* the arguments offered to the calls
Usernames == { <<"a", "n", "a">>, <<"b", "o", "b">>, <<"a", "b">> }
Senhas == {"s1", "s2"}
Sais == {"sal1"}
Tokens == 0..MaxTokens

\* the history of token t after the call op(username) with outcome r
emissao_apos(t, op, username, r) ==
    LET e == emissoes[t]
    IN  IF e.username # username THEN e
        ELSE IF op = "logout" THEN [e EXCEPT !.encerrada = TRUE]
        ELSE IF op = "renovar_sessao" /\ username \in DOMAIN sessoes
                /\ sessoes[username][1] = t
        THEN [e EXCEPT !.expira_em = r.sessoes[username][2]]
        ELSE e

\* the call op(username, x) of the session API with outcome r
ChamarAuth(op, username, x, r) ==
    /\ sessoes' = r.sessoes
    /\ emitidos' = IF op = "fazer_login" /\ r.erro = "ok"
                   THEN r.retorno ELSE emitidos
    /\ emissoes' =
         LET antigas == [t \in DOMAIN emissoes |->
                             emissao_apos(t, op, username, r)]
         IN  IF op = "fazer_login" /\ r.erro = "ok"
             THEN atribuir(antigas, r.retorno,
                           [username |-> username,
                            expira_em |-> r.sessoes[username][2],
                            encerrada |-> FALSE, vencida |-> FALSE])
             ELSE antigas
    /\ ult' = [erro |-> r.erro, retorno |-> r.retorno, op |-> op,
               entrada |-> x, username |-> username,
               usuariosAntes |-> usuarios, sessoesAntes |-> sessoes,
               sessoesDepois |-> r.sessoes, agoraAntes |-> agora,
               emissoesAntes |-> emissoes]
    /\ UNCHANGED <<usuarios, agora>>
    /\ UNCHANGED <<agencias, datas, legado>>
    /\ UNCHANGED <<pessoas, objetos, cliente_contas, agencia_contas>>
    /\ UNCHANGED operacoes

RegistrarUsuario ==
    \E username \in Usernames, senha \in {"s1"}, ativo \in BOOLEAN,
       sal \in Sais :
        LET r == registrar_usuario(username, senha, "cliente", ativo, sal)
        IN  /\ usuarios' = r.usuarios
            /\ ult' = [erro |-> r.erro, op |-> "registrar_usuario",
                       entrada |-> senha, username |-> username]
            /\ UNCHANGED <<sessoes, agora, emitidos, emissoes>>
            /\ UNCHANGED <<agencias, datas, legado>>
            /\ UNCHANGED <<pessoas, objetos, cliente_contas, agencia_contas>>
            /\ UNCHANGED operacoes

FazerLogin ==
    \E username \in Usernames, senha \in Senhas :
        /\ emitidos < MaxTokens
        /\ ChamarAuth("fazer_login", username, senha,
                      fazer_login(username, senha))

Logout ==
    \E username \in Usernames :
        ChamarAuth("logout", username, 0, logout(username))

VerificarSessao ==
    \E username \in Usernames, token \in Tokens :
        ChamarAuth("verificar_sessao", username, token,
                   verificar_sessao(username, token))

RenovarSessao ==
    \E username \in Usernames :
        ChamarAuth("renovar_sessao", username, 0, renovar_sessao(username))

LimparSessoesExpiradas ==
    ChamarAuth("limpar_sessoes_expiradas", <<>>, 0, limpar_sessoes_expiradas)

\* time passes between two calls
PassarTempo ==
    /\ agora < MaxAgora
    /\ agora' = agora + 1
    /\ emissoes' = [t \in DOMAIN emissoes |->
                        [emissoes[t] EXCEPT
                            !.vencida = @ \/ agora' > emissoes[t].expira_em]]
    /\ UNCHANGED <<usuarios, sessoes, emitidos, ult>>
    /\ UNCHANGED <<agencias, datas, legado>>
    /\ UNCHANGED <<pessoas, objetos, cliente_contas, agencia_contas>>
    /\ UNCHANGED operacoes

InitAuth == OperacoesParadas /\ CadastroVazio

NextAuth ==
    \/ RegistrarUsuario
    \/ FazerLogin
    \/ Logout
    \/ VerificarSessao
    \/ RenovarSessao
    \/ LimparSessoesExpiradas
    \/ PassarTempo

SpecAuth == InitAuth /\ [][NextAuth]_vars

\* token t was handed to u by the latest successful login of u
MaisRecente(e, u, t) ==
    /\ t \in DOMAIN e
    /\ e[t].username = u
    /\ \A x \in DOMAIN e : e[x].username = u => x <= t

\* token t was handed to u, logout(u) has not been called since, and the
\* time is not after the expiry the session manager last stored for it
EmVigor(e, u, t, instante) ==
    /\ t \in DOMAIN e
    /\ e[t].username = u
    /\ ~e[t].encerrada
    /\ instante <= e[t].expira_em

\* no login of u has succeeded since the last logout(u)
SemLogin(e, u) == \A x \in DOMAIN e : e[x].username = u => e[x].encerrada

\* C23 as stated: a token a login returned validates on every call made
\* before its expiry as long as logout has not been called, and after logout
\* no token validates until a new login.  Violated: a second login of the
\* same user replaces the token.
C23_TokenValidoAteLogout ==
    ult.op = "verificar_sessao" =>
        /\ EmVigor(ult.emissoesAntes, ult.username, ult.entrada,
                   ult.agoraAntes)
               => ult.retorno = TRUE
        /\ SemLogin(ult.emissoesAntes, ult.username) => ult.retorno = FALSE

\* C23 amended: the token of the latest successful login of u validates on
\* every call made up to the stored expiry as long as logout(u) has not been
\* called, and after logout(u) no token validates until a new login succeeds.
C23_TokenMaisRecenteValidoAteLogout ==
    ult.op = "verificar_sessao" =>
        /\ ( /\ EmVigor(ult.emissoesAntes, ult.username, ult.entrada,
                        ult.agoraAntes)
             /\ MaisRecente(ult.emissoesAntes, ult.username, ult.entrada) )
               => ult.retorno = TRUE
        /\ SemLogin(ult.emissoesAntes, ult.username) => ult.retorno = FALSE

\* a token validated after time has passed and the session was renewed
C23_Witness ==
    /\ ult.op = "verificar_sessao"
    /\ ult.retorno = TRUE
    /\ ult.agoraAntes > tempo_expiracao
    /\ EmVigor(ult.emissoesAntes, ult.username, ult.entrada, ult.agoraAntes)

\* the password the stored hash was made from
SenhaDoHash(h) == h[2]

\* C24: fazer_login raises AutenticacaoError for an unregistered username,
\* an inactive user or a wrong password; no session is created and the
\* sessions held, the user's own included, stay as they were.
C24_LoginRecusadoPreservaSessao ==
    ult.op = "fazer_login" =>
        LET us == ult.usuariosAntes
            u == ult.username
        IN  ( \/ u \notin DOMAIN us
              \/ ~us[u].ativo
              \/ SenhaDoHash(us[u].senha_hash) # ult.entrada )
            => /\ ult.erro = "AutenticacaoError"
               /\ ult.sessoesDepois = ult.sessoesAntes

\* a login with the wrong password by a user who holds a session
C24_Witness ==
    /\ ult.op = "fazer_login"
    /\ ult.erro = "AutenticacaoError"
    /\ ult.username \in DOMAIN ult.sessoesAntes
    /\ ult.username \in DOMAIN ult.sessoesDepois

\* the tokens that validate for u in the current state
TokensValidos(u) == {t \in Tokens : validar_sessao(u, t).retorno}

\* C25: at most one token validates per username, and a token that validates
\* is the one the latest successful login of that user returned.
C25_UmaSessaoPorUsuario ==
    /\ \A u \in Usernames : Cardinality(TokensValidos(u)) <= 1
    /\ ult.op = "verificar_sessao" /\ ult.retorno = TRUE =>
           MaisRecente(ult.emissoesAntes, ult.username, ult.entrada)

\* the token of an earlier login, still before its expiry and with no logout
\* since, is refused after a second login
C25_Witness ==
    /\ ult.op = "verificar_sessao"
    /\ ult.retorno = FALSE
    /\ EmVigor(ult.emissoesAntes, ult.username, ult.entrada, ult.agoraAntes)
    /\ ~MaisRecente(ult.emissoesAntes, ult.username, ult.entrada)
    /\ TokensValidos(ult.username) # {}

\* C26: once the expiry time of a session has passed, validar_sessao never
\* again returns True for its token.  Violated: renovar_sessao gives a
\* session that has expired, and was not yet removed, a new expiry.
C26_SessaoVencidaNuncaMaisValida ==
    ( /\ ult.op = "verificar_sessao"
      /\ ult.entrada \in DOMAIN ult.emissoesAntes
      /\ ult.emissoesAntes[ult.entrada].username = ult.username
      /\ ult.emissoesAntes[ult.entrada].vencida )
    => ult.retorno = FALSE

(***************************************************************************)
(* The ledger of the account operations                                    *)
(***************************************************************************)
\* the tipo of the records that add to a balance and of those that take
\* from it
Creditos ==
    {"Deposito", "Rendimento"} \cup {tipo_entrada(o, o) : o \in Contas}
Debitos ==
    {"Saque", "Taxa manutencao"} \cup {tipo_saida(d, d) : d \in Contas}

\* credits minus debits of a log
RECURSIVE Razao(_)
Razao(rs) ==
    IF rs = <<>> THEN 0
    ELSE (IF Head(rs).tipo \in Creditos THEN Head(rs).valor ELSE 0)
         - (IF Head(rs).tipo \in Debitos THEN Head(rs).valor ELSE 0)
         + Razao(Tail(rs))

\* C27: the ledger reconciles with the balance: every log starts empty, every
\* record is a credit or a debit, and no step changes the difference between
\* an account's balance and the credits minus the debits of its log; so the
\* balance is always the balance at construction plus credits minus debits.
C27_RazaoConcilia ==
    /\ \A c \in Contas : transacoes[c] = <<>>
    /\ [][\A c \in Contas :
            /\ \A k \in 1..Len(transacoes'[c]) :
                   transacoes'[c][k].tipo \in Creditos \cup Debitos
            /\ saldo'[c] - Razao(transacoes'[c])
                   = saldo[c] - Razao(transacoes[c])]_vars

\* a checking account whose log holds a deposit and a maintenance fee
C27_Witness ==
    \E c \in Correntes :
        /\ Len(transacoes[c]) = 2
        /\ transacoes[c][1].tipo = "Deposito"
        /\ transacoes[c][2].tipo = "Taxa manutencao"
        /\ last.op = "aplicar_taxas" /\ last.conta = c

(***************************************************************************)
(* The banco2 classes beside the refactored services: every call is made   *)
(* on the refactored account and on the banco2 account built with the same *)
(* arguments.  The clock is the one of the sessions.                       *)
(***************************************************************************)
\* models.Transacao.data: the field default, datetime.now() evaluated once,
\* when the class body ran at import, before any operation
Transacao_data == 0

\* banco2.Conta_Corrente._taxa_manutencao
Conta_Corrente_taxa_manutencao == 10

\* banco2.Transacao(tipo, valor, conta): _data = datetime.now()
Transacao_legada(tipo, v, c) ==
    [conta |-> c, tipo |-> tipo, valor |-> v, data |-> agora]

\* the outcome of a banco2 method: early return or not, and the account
ResultadoLegado(rejeitada, s, t) ==
    [saldo |-> s, transacoes |-> t, rejeitada |-> rejeitada]

\* banco2.Conta.depositar
Conta_depositar(c, v) ==
    LET l == legado[c]
    IN  IF v <= 0 THEN ResultadoLegado(TRUE, l.saldo, l.transacoes)
        ELSE ResultadoLegado(FALSE, l.saldo + v,
                 Append(l.transacoes, Transacao_legada("Deposito", v, c)))

\* banco2.Conta_Corrente.sacar that ignores the limit
Conta_Corrente_sacar_sem_limite(c, v) ==
    LET l == legado[c]
    IN  IF v <= 0 THEN ResultadoLegado(TRUE, l.saldo, l.transacoes)
        ELSE IF v > l.saldo
        THEN ResultadoLegado(TRUE, l.saldo, l.transacoes)
        ELSE ResultadoLegado(FALSE, l.saldo - v,
                 Append(l.transacoes, Transacao_legada("Saque", v, c)))

\* banco2.Conta_Corrente.sacar
Conta_Corrente_sacar(c, v) ==
    LET l == legado[c]
    IN  IF v <= 0 THEN ResultadoLegado(TRUE, l.saldo, l.transacoes)
        ELSE IF v > l.saldo + limite[c]
        THEN ResultadoLegado(TRUE, l.saldo, l.transacoes)
        ELSE ResultadoLegado(FALSE, l.saldo - v,
                 Append(l.transacoes, Transacao_legada("Saque", v, c)))

\* banco2.Conta_Corrente.aplicar_taxas
Conta_Corrente_aplicar_taxas(c) ==
    LET l == legado[c]
    IN  ResultadoLegado(FALSE, l.saldo - Conta_Corrente_taxa_manutencao,
            Append(l.transacoes,
                   Transacao_legada("Taxa manutencao",
                                    Conta_Corrente_taxa_manutencao, c)))

\* banco2.Conta_Poupanca.sacar
Conta_Poupanca_sacar(c, v) ==
    LET l == legado[c]
    IN  IF v <= 0 THEN ResultadoLegado(TRUE, l.saldo, l.transacoes)
        ELSE IF v > l.saldo
        THEN ResultadoLegado(TRUE, l.saldo, l.transacoes)
        ELSE ResultadoLegado(FALSE, l.saldo - v,
                 Append(l.transacoes, Transacao_legada("Saque", v, c)))

\* banco2.Conta_Poupanca.aplicar_taxas: a message only
Conta_Poupanca_aplicar_taxas(c) ==
    ResultadoLegado(FALSE, legado[c].saldo, legado[c].transacoes)

\* conta.sacar(valor) and conta.aplicar_taxas() on a banco2 account
sacar_legado(c, v) ==
    IF c \in Correntes THEN Conta_Corrente_sacar(c, v)
    ELSE Conta_Poupanca_sacar(c, v)

aplicar_taxas_legado(c) ==
    IF c \in Correntes THEN Conta_Corrente_aplicar_taxas(c)
    ELSE Conta_Poupanca_aplicar_taxas(c)

\* the accounts and amounts offered to the two implementations
ContasDasDuas == {"c1", "p1"}
ValoresDasDuas == {-5, 0, 5, 10}

\* the records the refactored call appended to the log of d, stamped: data
\* is the field of the record, instante (history) the clock at the call
carimbos(d, r) ==
    [k \in 1..(Len(r.transacoes[d]) - Len(transacoes[d])) |->
        [instante |-> agora, data |-> Transacao_data]]

InitDasDuas ==
    /\ Init
    /\ saldo["c2"] = 0

\* the call op(c, v): outcome r of the refactored service, l of banco2
ChamarAsDuas(op, c, v, r, l) ==
    /\ TotalRegistros(r.transacoes, Contas) <= MaxTransacoes
    /\ Len(l.transacoes) <= MaxTransacoes
    /\ saldo' = r.saldo
    /\ transacoes' = r.transacoes
    /\ last' = [conta |-> c, erro |-> r.erro, valor |-> v, retorno |-> 0,
                op |-> op, destino |-> "-",
                saldoAntes |-> saldo, transAntes |-> transacoes]
    /\ depositos' = NenhumDeposito
    /\ datas' = [d \in Contas |-> datas[d] \o carimbos(d, r)]
    /\ legado' = [legado EXCEPT
                     ![c] = [saldo |-> l.saldo, transacoes |-> l.transacoes]]
    /\ ult' = [op |-> op, rejeitada |-> l.rejeitada, legadoAntes |-> legado]
    /\ UNCHANGED <<limite, taxa_rendimento>>
    /\ UNCHANGED <<pessoas, objetos, cliente_contas, agencia_contas>>
    /\ UNCHANGED <<agencias, usuarios, sessoes, agora, emitidos, emissoes>>

DepositarNasDuas ==
    \E c \in ContasDasDuas, v \in ValoresDasDuas :
        ChamarAsDuas("depositar", c, v,
                     realizar_deposito(c, v), Conta_depositar(c, v))

SacarNasDuas ==
    \E c \in ContasDasDuas, v \in ValoresDasDuas :
        ChamarAsDuas("sacar", c, v, realizar_saque(c, v), sacar_legado(c, v))

AplicarTaxasNasDuas ==
    \E c \in ContasDasDuas :
        ChamarAsDuas("aplicar_taxas", c, 0,
                     aplicar_taxas(c), aplicar_taxas_legado(c))

NextDasDuas ==
    \/ DepositarNasDuas
    \/ SacarNasDuas
    \/ AplicarTaxasNasDuas
    \/ PassarTempo

SpecDasDuas == InitDasDuas /\ [][NextDasDuas]_vars

\* the records of every log of the refactored accounts, as stamped
Carimbos == UNION {{datas[c][k] : k \in 1..Len(datas[c])} : c \in Contas}

\* C28: of two records made by operations at different clock times the later
\* one carries the strictly greater timestamp.  Violated: every record of
\* the refactored Transacao carries the time the class was defined.
C28_DataCresceComORelogio ==
    \A x \in Carimbos, y \in Carimbos :
        x.instante < y.instante => x.data < y.data

\* the amounts of the records of a log, in order
ValoresDoLog(t) == [k \in 1..Len(t) |-> t[k].valor]

\* C30: beside each other the two implementations end every step with the
\* same balance and with logs of the same length and amounts, and banco2
\* returns early, leaving its account as it was, exactly when the
\* refactored service raises.
C30_LegadoEquivalente ==
    /\ \A c \in Contas :
          /\ legado[c].saldo = saldo[c]
          /\ ValoresDoLog(legado[c].transacoes) = ValoresDoLog(transacoes[c])
    /\ ult.op \in {"depositar", "sacar", "aplicar_taxas"} =>
          /\ ult.rejeitada <=> last.erro # "ok"
          /\ ult.rejeitada => legado = ult.legadoAntes

\* a withdrawal that uses the limit of the checking account, accepted by both
C30_Witness ==
    /\ ult.op = "sacar" /\ ~ult.rejeitada
    /\ last.conta = "c1" /\ saldo["c1"] < 0
    /\ Len(legado["c1"].transacoes) = 1
    /\ last.saldoAntes["c1"] = 0

\* the accounts the call recorded in last was made on
Alvos ==
    IF last.op = "transferir" THEN {last.conta, last.destino}
    ELSE {last.conta}

\* C29: a service call on an account leaves the balance and the log of every
\* other account as they were; transferir changes only its source and its
\* destination.
C29_OutrasContasIntactas ==
    \A c \in Contas \ Alvos :
        /\ saldo[c] = last.saldoAntes[c]
        /\ transacoes[c] = last.transAntes[c]

\* a deposit on one account while another account has a record in its log
C29_Witness ==
    /\ last.op = "realizar_deposito" /\ last.erro = "ok"
    /\ \E c \in Contas \ {last.conta} :
          /\ transacoes[c] # <<>>
          /\ transacoes[c] # transacoes[last.conta]


====
